---------------------------- MODULE Spec2Model ----------------------------
(***************************************************************************)
(* SSIM-X (src/ssimx/ssimx.cpp): the control flow of main() from the two   *)
(* decoded rasters to the printed score, grid_artifacts(), the 8-bit gray  *)
(* background blend, and the (score, score_max) accumulator.               *)
(*                                                                         *)
(* Numbers.  Weights are kept exact as integers: every weight product the  *)
(* program uses is a multiple of 1e-5, so score and score_max are counted  *)
(* in units of 1e-5.  The values returned by the OpenCV reductions         *)
(* (mean, minMaxLoc) are drawn from the level sets below; a level v stands *)
(* for the real value v.  The final quotient is an exact rational with the *)
(* IEEE-754 outcomes of a division by zero (inf, nan) kept.                *)
(***************************************************************************)
EXTENDS Integers, Sequences, FiniteSets, Bags, TLC

VARIABLES
    pc,                  \* position in main()
    argc,                \* 3: no output prefix, 4: prefix given (argv[3])
    file1, file2,        \* the decoded rasters as imread/readAvif return them
    identical,           \* the two rasters are pixel-for-pixel equal
    img1_temp, img2_temp,\* the 8-bit rasters main() works on
    img1_temp_channels, img2_temp_channels,
    nChan,
    img,                 \* size of img1 (= size of img2) and whether they hold data
    live,                \* the scale loop's Mat locals that hold data
    scale,
    score, score_max,
    final,               \* the value printed at line 463
    err,                 \* which error return was taken
    log,                 \* the computations and writes performed, in order
    badReads,            \* buffers read while released
    avg,                 \* Scalar avg of line 440 (one level for every channel)
    ones,                \* every statistic accumulated so far had the value 1
    errormap, gridOut    \* argument and result of a grid_artifacts call

vars == <<pc, argc, file1, file2, identical, ones, img1_temp, img2_temp, img1_temp_channels,
          img2_temp_channels, nChan, img, live, scale, score, score_max,
          final, err, log, badReads, avg, errormap, gridOut>>

-----------------------------------------------------------------------------
(* Bounds of the model *)

\* grid_artifacts is explored on maps of 1..MaxMapDim rows
MaxMapDim == 101

\* pairs of different rasters, and gray rasters, are explored up to this side;
\* larger rasters are compared with themselves
MaxDistortedSide == 100

-----------------------------------------------------------------------------
(* Program constants, in integer units *)

\* number of pyramid scales: for (int scale = 0; scale < 6; scale++)
NumScales == 6

\* smallest side the program accepts and the loop continues with
MinSide == 8

\* the gray background of the alpha blend
GrayBackground == 128

\* scale_weights, in units of 1e-4
scale_weights ==
    <<  <<448, 2856, 3001, 2363, 1333, 1000>>,
        <<150,  448, 2856, 3001, 3363, 2500>>,
        <<150,  448, 2856, 3001, 3363, 2500>>,
        <<448, 2856, 3001, 2363, 1333, 1000>> >>

\* chroma_weight = 0.2, in tenths; the luma factor 1.0 in tenths
chroma_weight == 2
luma_weight == 10

\* mscale_weights, in units of 1e-2
mscale_weights ==
    <<  <<20, 30, 25, 20, 12,  5>>,
        << 1,  5, 20, 30, 35, 35>>,
        << 1,  5, 20, 30, 35, 35>>,
        <<20, 30, 25, 20, 12,  5>> >>

\* min_weight, in units of 1e-3
min_weight == <<100, 5, 5, 5>>

\* extra_edges_weight, in units of 1e-5
extra_edges_weight == <<150000, 10000, 10000, 50000>>

\* worst_grid_weight[twice][i], in units of 1e-5
worst_grid_weight ==
    <<  <<100000, 10000, 10000, 50000>>,
        <<100000, 10000, 10000, 50000>> >>

\* (i > 0 ? chroma_weight : 1.0) * scale_weights[i][scale], in units of 1e-5
ScaleWeight(i, s) ==
    (IF i > 0 THEN chroma_weight ELSE luma_weight) * scale_weights[i + 1][s + 1]

\* min_weight[i] * mscale_weights[i][scale], in units of 1e-5
MinWeight(i, s) == min_weight[i + 1] * mscale_weights[i + 1][s + 1]

EdgeWeight(i) == extra_edges_weight[i + 1]

GridWeight(twice, i) == worst_grid_weight[twice + 1][i + 1]

-----------------------------------------------------------------------------
(* Inputs *)

\* channel counts a decoded raster can have
ChannelCounts == 1..4

\* (cols, rows) of the decoded rasters
Sizes ==
    { <<7, 8>>, <<8, 8>>, <<15, 9>>, <<16, 20>>, <<100, 50>>, <<128, 300>>,
      <<512, 512>> }

Byte == 0..255

\* values of a per-channel SSIM statistic, and of a 1 - edgediff statistic
SsimLevels == {-1, 0, 1}
EdgeLevels == {0, 1}

\* The values a statistic of the two buffers can take: a raster compared with
\* itself has edgediff = 0 and an SSIM map of 1 (lines 345-359, 390-415: the
\* numerator and the denominator are then the same expression), unless the
\* buffers were filled by a read of released memory.
Stat(levels, same, bad) == IF same /\ bad = <<>> THEN {1} ELSE levels

\* distance between the rows (columns) that carry the low mean of a map
Periods == {1, 8, 64}


-----------------------------------------------------------------------------
(* Buffers *)

\* The effect of a list of buffer operations <<kind, buffer>> on the set L of
\* buffers that hold data: "r" reads, "w" (re)allocates and writes, "x" is
\* Mat::release() or the destructor.  B collects the buffers read while they
\* held no data.
RECURSIVE RunOps(_, _, _)
RunOps(ops, L, B) ==
    IF ops = <<>> THEN [live |-> L, bad |-> B]
    ELSE LET op == Head(ops)
             k  == op[1]
             b  == op[2]
         IN  CASE k = "r" -> RunOps(Tail(ops), L,
                                    IF b \in L THEN B ELSE Append(B, b))
               [] k = "w" -> RunOps(Tail(ops), L \cup {b}, B)
               [] OTHER   -> RunOps(Tail(ops), L \ {b}, B)

\* a representative pixel of a decoded raster with ch channels
SamplePixel(ch) == SubSeq(<<10, 128, 250, 77>>, 1, ch)

Raster(size, ch, px) == [cols |-> size[1], rows |-> size[2], ch |-> ch, px |-> px]

NoFinal == [kind |-> "none", num |-> 0, den |-> 1]
NoMap == [rows |-> 0, cols |-> 0, twice |-> 0,
          rowp |-> [lo |-> 0, hi |-> 0, period |-> 1],
          colp |-> [lo |-> 0, hi |-> 0, period |-> 1]]
NoGrid == [score |-> 0, score_max |-> 0, picked |-> <<>>, nmax |-> 0]

-----------------------------------------------------------------------------
(* main(), lines 221-336: reading, validation, normalisation *)

\* the state once both images are decoded (lines 244-248)
Init ==
    /\ pc = "size"
    /\ argc \in {3, 4}
    /\ \E s1 \in Sizes, s2 \in Sizes, c1 \in ChannelCounts, c2 \in ChannelCounts :
          /\ file1 = Raster(s1, c1, SamplePixel(c1))
          /\ file2 = Raster(s2, c2, SamplePixel(c2))
    /\ identical \in BOOLEAN
    /\ identical => file1 = file2
    /\ \/ identical /\ file1.ch # 1
       \/ /\ file1.cols <= MaxDistortedSide /\ file1.rows <= MaxDistortedSide
          /\ file2.cols <= MaxDistortedSide /\ file2.rows <= MaxDistortedSide
    /\ ones = TRUE
    /\ img1_temp = file1
    /\ img2_temp = file2
    /\ img1_temp_channels = 0
    /\ img2_temp_channels = 0
    /\ nChan = 0
    /\ img = [cols |-> 0, rows |-> 0]
    /\ live = {"img1_temp", "img2_temp"}
    /\ scale = 0
    /\ score = 0
    /\ score_max = 0
    /\ final = NoFinal
    /\ err = "none"
    /\ log = <<>>
    /\ badReads = <<>>
    /\ avg = 0
    /\ errormap = NoMap
    /\ gridOut = NoGrid

\* lines 250-255
CheckSize ==
    /\ pc = "size"
    /\ IF img1_temp.cols # img2_temp.cols \/ img1_temp.rows # img2_temp.rows
       THEN pc' = "error" /\ err' = "DimensionMismatch"
       ELSE pc' = "small" /\ err' = err
    /\ UNCHANGED <<argc, file1, file2, identical, ones, img1_temp, img2_temp, img1_temp_channels,
                   img2_temp_channels, nChan, img, live, scale, score, score_max,
                   final, log, badReads, avg, errormap, gridOut>>

\* lines 257-260
CheckSmall ==
    /\ pc = "small"
    /\ IF img1_temp.cols < MinSide \/ img1_temp.rows < MinSide
       THEN pc' = "error" /\ err' = "ImageTooSmall"
       ELSE pc' = "channels" /\ err' = err
    /\ UNCHANGED <<argc, file1, file2, identical, ones, img1_temp, img2_temp, img1_temp_channels,
                   img2_temp_channels, nChan, img, live, scale, score, score_max,
                   final, log, badReads, avg, errormap, gridOut>>

\* cvtColor(m, m, COLOR_RGB2RGBA): a fourth channel with the maximum value
PromoteMutant(r) == [r EXCEPT !.ch = 4, !.px = Append(r.px, 0)]
Promote(r) == [r EXCEPT !.ch = 4, !.px = Append(r.px, 255)]

\* lines 262-278
CheckChannels ==
    /\ pc = "channels"
    /\ img1_temp_channels' = img1_temp.ch
    /\ img2_temp_channels' = img2_temp.ch
    /\ IF img1_temp.ch # img2_temp.ch
       THEN IF img1_temp.ch < 3 \/ img2_temp.ch < 3
            THEN /\ pc' = "error"
                 /\ err' = "ChannelMismatch"
                 /\ UNCHANGED <<img1_temp, img2_temp>>
            ELSE /\ pc' = "blend"
                 /\ err' = err
                 /\ img1_temp' = IF img1_temp.ch = 3 THEN Promote(img1_temp) ELSE img1_temp
                 /\ img2_temp' = IF img2_temp.ch = 3 THEN Promote(img2_temp) ELSE img2_temp
       ELSE /\ pc' = "blend"
            /\ err' = err
            /\ UNCHANGED <<img1_temp, img2_temp>>
    /\ UNCHANGED <<argc, file1, file2, identical, ones, nChan, img, live, scale, score, score_max,
                   final, log, badReads, avg, errormap, gridOut>>

\* p[c] = (p[3] * p[c] + (255 - p[3]) * 128) / 255, evaluated in int and
\* stored into an unsigned 8-bit sample
BlendSampleMutant(a, c) == ((a * c + (256 - a) * GrayBackground) \div 255) % 256
BlendSample(a, c) == ((a * c + (255 - a) * GrayBackground) \div 255) % 256

\* lines 286-289 for one pixel
BlendPixel(p) ==
    <<BlendSample(p[4], p[1]), BlendSample(p[4], p[2]), BlendSample(p[4], p[3]), p[4]>>

BlendRaster(r) == [r EXCEPT !.px = BlendPixel(r.px)]

\* lines 280-297
Blend ==
    /\ pc = "blend"
    /\ nChan' = img1_temp.ch
    /\ IF img1_temp.ch = 4
       THEN /\ img1_temp' = BlendRaster(img1_temp)
            /\ img2_temp' = BlendRaster(img2_temp)
            /\ log' = Append(log, <<"blend", -1>>)
       ELSE UNCHANGED <<img1_temp, img2_temp, log>>
    /\ pc' = "linearize"
    /\ UNCHANGED <<argc, file1, file2, identical, ones, img1_temp_channels, img2_temp_channels,
                   img, live, scale, score, score_max, final, err, badReads,
                   avg, errormap, gridOut>>

\* lines 299-314: the gamma lookup of both rasters, or the allocation of the
\* two gray buffers
LinearizeOps(n) ==
    IF n > 1
    THEN << <<"r", "img1_temp">>, <<"w", "img1">>,
            <<"r", "img2_temp">>, <<"w", "img2">> >>
    ELSE << <<"w", "img1">>, <<"w", "img2">> >>

Linearize ==
    /\ pc = "linearize"
    /\ LET r == RunOps(LinearizeOps(nChan), live, badReads)
       IN  /\ live' = r.live
           /\ badReads' = r.bad
    /\ img' = [cols |-> img1_temp.cols, rows |-> img1_temp.rows]
    /\ log' = Append(log, <<IF nChan > 1 THEN "lut" ELSE "alloc", -1>>)
    /\ pc' = "release"
    /\ UNCHANGED <<argc, file1, file2, identical, ones, img1_temp, img2_temp, img1_temp_channels,
                   img2_temp_channels, nChan, scale, score, score_max, final,
                   err, avg, errormap, gridOut>>

\* lines 315-316
ReleaseOps == << <<"x", "img1_temp">>, <<"x", "img2_temp">> >>

ReleaseTemps ==
    /\ pc = "release"
    /\ LET r == RunOps(ReleaseOps, live, badReads)
       IN  /\ live' = r.live
           /\ badReads' = r.bad
    /\ pc' = "convert"
    /\ UNCHANGED <<argc, file1, file2, identical, ones, img1_temp, img2_temp, img1_temp_channels,
                   img2_temp_channels, nChan, img, scale, score, score_max,
                   final, err, log, avg, errormap, gridOut>>

\* lines 319-330: rgb2lab in place (3 and 4 channels), sample / 255 read from
\* the 8-bit rasters (1 channel)
ConvertOps(n) ==
    IF n = 1
    THEN << <<"r", "img1_temp">>, <<"w", "img1">>,
            <<"r", "img2_temp">>, <<"w", "img2">> >>
    ELSE << <<"r", "img1">>, <<"w", "img1">>,
            <<"r", "img2">>, <<"w", "img2">> >>

\* lines 331-334
Supported(n) == n \in {1, 3, 4}

\* lines 319-336.  A read of a released Mat is undefined: the run either
\* stops there or goes on with whatever the read produced.
Convert ==
    /\ pc = "convert"
    /\ IF Supported(nChan)
       THEN LET r == RunOps(ConvertOps(nChan), live, badReads)
            IN  /\ live' = r.live
                /\ badReads' = r.bad
                /\ log' = Append(log, <<IF nChan = 1 THEN "gray" ELSE "lab", -1>>)
                /\ \/ /\ pc' = "loop"
                      /\ score' = 0
                      /\ score_max' = 0
                      /\ scale' = 0
                   \/ /\ r.bad # badReads
                      /\ pc' = "crashed"
                      /\ UNCHANGED <<score, score_max, scale>>
                /\ err' = err
       ELSE /\ pc' = "error"
            /\ err' = "UnsupportedChannelCount"
            /\ UNCHANGED <<live, badReads, log, score, score_max, scale>>
    /\ UNCHANGED <<argc, file1, file2, identical, ones, img1_temp, img2_temp, img1_temp_channels,
                   img2_temp_channels, nChan, img, final, avg, errormap, gridOut>>

-----------------------------------------------------------------------------
(* grid_artifacts(), lines 159-186 *)

\* A map is given by its row means and its column means; the mean of row
\* (column) y is lo on every period-th row and hi elsewhere, the same in
\* every channel.
Mean(p, y) == IF (y + 1) % p.period = 0 THEN p.lo ELSE p.hi

MeanPatterns(levels) ==
    { [lo |-> l, hi |-> h, period |-> q] :
        l \in levels, h \in levels, q \in Periods }

\* the multiset row_scores[i] (col_scores[i]) after the n insertions
MeanBag(n, p) ==
    LET vals == { Mean(p, y) : y \in 0..(n - 1) }
    IN  [ v \in vals |-> Cardinality({ y \in 0..(n - 1) : Mean(p, y) = v }) ]

SetMin(S) == CHOOSE v \in S : \A w \in S : v <= w

\* the range-for over the multiset, ascending, with the counter k: the first
\* element reached with k >= rank is added and the loop is left; <<>> when the
\* loop ends without adding
RECURSIVE SelectMutant(_, _, _, _)
SelectMutant(bag, vals, k, rank) ==
    IF vals = {} THEN <<>>
    ELSE LET v == SetMin(vals)
             c == bag[v]
         IN  IF k + c - 1 > rank THEN <<v>>
             ELSE SelectMutant(bag, vals \ {v}, k + c, rank)

RECURSIVE SelectLoop(_, _, _, _)
SelectLoop(bag, vals, k, rank) ==
    IF vals = {} THEN <<>>
    ELSE LET v == SetMin(vals)
             c == bag[v]
         IN  IF k + c - 1 >= rank THEN <<v>>
             ELSE SelectLoop(bag, vals \ {v}, k + c, rank)

Select(bag, vals, k, rank) == SelectLoop(bag, vals, k, rank)

\* lines 171-174 (rows) and 182-185 (columns): the loop over the channels
RECURSIVE GridLoop(_, _, _, _, _, _)
GridLoop(i, n, bag, size, twice, acc) ==
    IF i >= n THEN acc
    ELSE LET s == Select(bag, DOMAIN bag, 0, size \div 50)
         IN  GridLoop(i + 1, n, bag, size, twice,
                [score     |-> acc.score +
                                 (IF s = <<>> THEN 0 ELSE GridWeight(twice, i) * s[1]),
                 score_max |-> acc.score_max + GridWeight(twice, i),
                 picked    |-> acc.picked \o s,
                 nmax      |-> acc.nmax + 1])

grid_artifacts(m, n, sc, mx, twice) ==
    LET rowsDone == GridLoop(0, n, MeanBag(m.rows, m.rowp), m.rows, twice,
                             [score |-> sc, score_max |-> mx,
                              picked |-> <<>>, nmax |-> 0])
    IN  GridLoop(0, n, MeanBag(m.cols, m.colp), m.cols, twice, rowsDone)

-----------------------------------------------------------------------------
(* The accumulator *)

\* for (i < nChan) { score += w[i] * v; score_max += w[i]; }
RECURSIVE Accumulate(_, _, _)
Accumulate(acc, ws, v) ==
    IF ws = <<>> THEN acc
    ELSE Accumulate([score     |-> acc.score + Head(ws) * v,
                     score_max |-> acc.score_max + Head(ws)],
                    Tail(ws), v)

\* lines 383-386
EdgeLoop(sc, mx, n, v) ==
    Accumulate([score |-> sc, score_max |-> mx],
               [i \in 1..n |-> EdgeWeight(i - 1)], v)

\* lines 441-444
AverageLoopMutant(sc, mx, n, s, v) ==
    LET a == Accumulate([score |-> sc, score_max |-> 0],
                        [i \in 1..n |-> ScaleWeight(i - 1, s)], v)
    IN  [score |-> a.score, score_max |-> mx + a.score - sc]

AverageLoop(sc, mx, n, s, v) ==
    Accumulate([score |-> sc, score_max |-> mx],
               [i \in 1..n |-> ScaleWeight(i - 1, s)], v)

\* lines 451-456
WorstLoopMutant(sc, mx, n, s, v) ==
    [score     |-> Accumulate([score |-> sc, score_max |-> mx],
                              [i \in 1..n |-> 100 * min_weight[i]], v).score,
     score_max |-> Accumulate([score |-> sc, score_max |-> mx],
                              [i \in 1..n |-> MinWeight(i - 1, s)], v).score_max]

WorstLoop(sc, mx, n, s, v) ==
    Accumulate([score |-> sc, score_max |-> mx],
               [i \in 1..n |-> MinWeight(i - 1, s)], v)

\* IEEE-754 double division of two finite values, as an exact rational
Rat(n, d) == [kind |-> "num", num |-> n, den |-> d]
Inf(sign) == [kind |-> "inf", num |-> sign, den |-> 0]
NaN == [kind |-> "nan", num |-> 0, den |-> 0]

Divide(a, b) ==
    IF b = 0
    THEN IF a > 0 THEN Inf(1) ELSE IF a < 0 THEN Inf(-1) ELSE NaN
    ELSE IF b > 0 THEN Rat(a, b) ELSE Rat(-a, -b)

MinusOne(x) == IF x.kind = "num" THEN Rat(x.num - x.den, x.den) ELSE x

LessZero(x) == x.kind \in {"num", "inf"} /\ x.num < 0

GreaterOne(x) == (x.kind = "num" /\ x.num > x.den) \/ (x.kind = "inf" /\ x.num > 0)

\* lines 459-461
FinalScoreMutant(sc, mx) ==
    LET raw == MinusOne(Divide(mx, sc))
    IN  IF LessZero(raw) THEN Rat(0, 1) ELSE raw

FinalScore(sc, mx) ==
    LET raw == MinusOne(Divide(mx, sc))
        floored == IF LessZero(raw) THEN Rat(0, 1) ELSE raw
    IN  IF GreaterOne(floored) THEN Rat(1, 1) ELSE floored

-----------------------------------------------------------------------------
(* main(), lines 338-457: the scale loop *)

\* INTER_AREA resize by 0.5: the new side is n * 0.5 rounded to the nearest
\* integer, halves to the even one
Half(n) ==
    IF n % 2 = 0 THEN n \div 2
    ELSE IF (n \div 2) % 2 = 0 THEN n \div 2 ELSE n \div 2 + 1

\* the Mat locals of one iteration (line 339 and the blocks below it)
LoopLocals ==
    {"img1_img2", "img1_sq", "img2_sq", "mu1", "mu2", "mu1_mu2", "sigma1_sq",
     "sigma2_sq", "sigma12", "edgediff", "edgediff_image", "ssim_image",
     "ssim_map_c"}

\* line 341
TooSmall(m) == m.cols < MinSide \/ m.rows < MinSide

\* lines 338-341
LoopHeadGuardMutant == scale < NumScales
LoopHeadGuard == scale < NumScales /\ ~TooSmall(img)

LoopHead ==
    /\ pc = "loop"
    /\ pc' = IF LoopHeadGuard THEN "numerator" ELSE "finalize"
    /\ UNCHANGED <<argc, file1, file2, identical, ones, img1_temp, img2_temp, img1_temp_channels,
                   img2_temp_channels, nChan, img, live, scale, score, score_max,
                   final, err, log, badReads, avg, errormap, gridOut>>

\* lines 358 and 418: the detectors run on the full-resolution scale only
FullResolutionMutant == scale <= 1
FullResolution == scale = 0

\* lines 345-355
NumeratorOps ==
    << <<"r", "img1">>, <<"w", "mu1">>, <<"r", "img2">>, <<"w", "mu2">>,
       <<"r", "img1">>, <<"r", "img2">>, <<"w", "img1_img2">>,
       <<"r", "img1_img2">>, <<"w", "sigma12">>, <<"x", "img1_img2">>,
       <<"r", "mu1">>, <<"r", "mu2">>, <<"w", "mu1_mu2">>,
       <<"r", "sigma12">>, <<"r", "mu1_mu2">>, <<"w", "sigma12">>,
       <<"r", "mu1_mu2">>, <<"w", "mu1_mu2">>,
       <<"r", "mu1_mu2">>, <<"r", "sigma12">>, <<"w", "mu1_mu2">>,
       <<"x", "sigma12">> >>

Numerator ==
    /\ pc = "numerator"
    /\ LET r == RunOps(NumeratorOps, live, badReads)
       IN  /\ live' = r.live
           /\ badReads' = r.bad
    /\ log' = Append(log, <<"ssim", scale>>)
    /\ pc' = IF FullResolution THEN "edge" ELSE "downsample"
    /\ UNCHANGED <<argc, file1, file2, identical, ones, img1_temp, img2_temp, img1_temp_channels,
                   img2_temp_channels, nChan, img, scale, score, score_max,
                   final, err, avg, errormap, gridOut>>

\* lines 362 and 421: the condition under which a diagnostic image is written
WritesImageMutant == argc > 3
WritesImage == argc > 3 /\ nChan > 2

\* lines 359-388
EdgeOps ==
    << <<"r", "img2">>, <<"r", "mu2">>, <<"r", "img1">>, <<"r", "mu1">>,
       <<"w", "edgediff">> >>
    \o (IF WritesImage
        THEN << <<"r", "edgediff">>, <<"w", "edgediff_image">>,
                <<"r", "edgediff_image">>, <<"x", "edgediff_image">> >>
        ELSE << >>)
    \o << <<"r", "edgediff">>, <<"w", "edgediff">>, <<"r", "edgediff">>,
          <<"r", "edgediff">>, <<"x", "edgediff">> >>

MapOf(m, rp, cp) ==
    [rows |-> m.rows, cols |-> m.cols, twice |-> 0, rowp |-> rp, colp |-> cp]

EdgeDetect ==
    /\ pc = "edge"
    /\ LET r == RunOps(EdgeOps, live, badReads)
       IN  /\ live' = r.live
           /\ badReads' = r.bad
    /\ \E v \in Stat(EdgeLevels, identical, badReads),
          rp \in MeanPatterns(Stat(EdgeLevels, identical, badReads)),
          cp \in MeanPatterns(Stat(EdgeLevels, identical, badReads)) :
          /\ rp.lo <= v /\ v <= rp.hi
          /\ cp.lo <= v /\ v <= cp.hi
          /\ LET e == EdgeLoop(score, score_max, nChan, v)
                 g == grid_artifacts(MapOf(img, rp, cp), nChan, e.score, e.score_max, 1)
             IN  /\ score' = g.score
                 /\ score_max' = g.score_max
                 /\ ones' = (ones /\ v = 1 /\ \A k \in 1..Len(g.picked) : g.picked[k] = 1)
    /\ log' = log \o (IF WritesImage THEN << <<"write_edgediff", scale>> >> ELSE << >>)
                  \o << <<"edge", scale>>, <<"grid", scale, 1, "edgediff">> >>
    /\ pc' = "downsample"
    /\ UNCHANGED <<argc, file1, file2, identical, img1_temp, img2_temp, img1_temp_channels,
                   img2_temp_channels, nChan, img, scale, final, err, avg,
                   errormap, gridOut>>

\* lines 390-395
DownsampleOps ==
    << <<"r", "img1">>, <<"w", "img1_sq">>, <<"r", "img2">>, <<"w", "img2_sq">>,
       <<"r", "img1">>, <<"w", "img1">>, <<"r", "img2">>, <<"w", "img2">> >>

\* lines 397-416; ssim_map is a reference to mu1_mu2
DenominatorOps ==
    << <<"r", "mu1">>, <<"w", "mu1">>, <<"r", "mu2">>, <<"w", "mu2">>,
       <<"r", "mu1">>, <<"r", "mu2">>, <<"w", "mu1">>, <<"x", "mu2">>,
       <<"r", "img1_sq">>, <<"w", "sigma1_sq">>, <<"x", "img1_sq">>,
       <<"r", "img2_sq">>, <<"w", "sigma2_sq">>, <<"x", "img2_sq">>,
       <<"r", "sigma1_sq">>, <<"r", "sigma2_sq">>, <<"w", "sigma1_sq">>,
       <<"x", "sigma2_sq">>,
       <<"r", "sigma1_sq">>, <<"r", "mu1">>, <<"w", "sigma1_sq">>,
       <<"r", "mu1">>, <<"w", "mu1">>,
       <<"r", "mu1">>, <<"r", "sigma1_sq">>, <<"w", "mu1">>, <<"x", "sigma1_sq">>,
       <<"r", "mu1_mu2">>, <<"r", "mu1">>, <<"w", "mu1_mu2">>, <<"x", "mu1">> >>

\* lines 390-416: the map of this scale is complete and the buffers are
\* halved for the next one
SsimMap ==
    /\ pc = "downsample"
    /\ LET r == RunOps(DownsampleOps \o DenominatorOps, live, badReads)
       IN  /\ live' = r.live
           /\ badReads' = r.bad
    /\ img' = [cols |-> Half(img.cols), rows |-> Half(img.rows)]
    /\ log' = Append(log, <<"resize", scale>>)
    /\ pc' = IF FullResolution THEN "grid" ELSE "average"
    /\ UNCHANGED <<argc, file1, file2, identical, ones, img1_temp, img2_temp, img1_temp_channels,
                   img2_temp_channels, nChan, scale, score, score_max, final,
                   err, avg, errormap, gridOut>>

\* lines 420-437
WriteOps ==
    IF WritesImage
    THEN << <<"r", "mu1_mu2">>, <<"w", "ssim_image">>, <<"r", "ssim_image">>,
            <<"x", "ssim_image">> >>
    ELSE << >>

\* lines 418-437, at scale 0: the grid detector on the SSIM map (which has the
\* size the rasters had before the resize), then the optional image
GridSsim ==
    /\ pc = "grid"
    /\ LET r == RunOps(<< <<"r", "mu1_mu2">> >> \o WriteOps, live, badReads)
       IN  /\ live' = r.live
           /\ badReads' = r.bad
    /\ \E rp \in MeanPatterns(Stat(SsimLevels, identical, badReads)),
          cp \in MeanPatterns(Stat(SsimLevels, identical, badReads)) :
          /\ rp.lo <= rp.hi
          /\ cp.lo <= cp.hi
          /\ LET g == grid_artifacts(MapOf(file1, rp, cp), nChan, score, score_max, 0)
             IN  /\ score' = g.score
                 /\ score_max' = g.score_max
                 /\ ones' = (ones /\ \A k \in 1..Len(g.picked) : g.picked[k] = 1)
    /\ log' = log \o << <<"grid", scale, 0, "ssim_map">> >>
                  \o (IF WritesImage THEN << <<"write_ssim", scale>> >> ELSE << >>)
    /\ pc' = "average"
    /\ UNCHANGED <<argc, file1, file2, identical, img1_temp, img2_temp, img1_temp_channels,
                   img2_temp_channels, nChan, img, scale, final, err, avg,
                   errormap, gridOut>>

\* lines 439-444
Average ==
    /\ pc = "average"
    /\ LET r == RunOps(<< <<"r", "mu1_mu2">> >>, live, badReads)
       IN  /\ live' = r.live
           /\ badReads' = r.bad
    /\ \E v \in Stat(SsimLevels, identical, badReads) :
          /\ avg' = v
          /\ ones' = (ones /\ v = 1)
          /\ LET a == AverageLoop(score, score_max, nChan, scale, v)
             IN  /\ score' = a.score
                 /\ score_max' = a.score_max
    /\ log' = Append(log, <<"avg", scale>>)
    /\ pc' = "worst"
    /\ UNCHANGED <<argc, file1, file2, identical, img1_temp, img2_temp, img1_temp_channels,
                   img2_temp_channels, nChan, img, scale, final, err,
                   errormap, gridOut>>

\* lines 446-456, then the end of the iteration: the locals are destroyed
WorstOps ==
    << <<"r", "mu1_mu2">>, <<"w", "mu1_mu2">>, <<"r", "mu1_mu2">>,
       <<"w", "ssim_map_c">>, <<"r", "ssim_map_c">> >>

\* lines 446-457
WorstBlock ==
    /\ pc = "worst"
    /\ LET r == RunOps(WorstOps, live, badReads)
       IN  /\ live' = r.live \ LoopLocals
           /\ badReads' = r.bad
    /\ \E v \in Stat(SsimLevels, identical, badReads) :
          /\ v <= avg
          /\ ones' = (ones /\ v = 1)
          /\ LET w == WorstLoop(score, score_max, nChan, scale, v)
             IN  /\ score' = w.score
                 /\ score_max' = w.score_max
    /\ avg' = 0
    /\ log' = Append(log, <<"worst", scale>>)
    /\ scale' = scale + 1
    /\ pc' = "loop"
    /\ UNCHANGED <<argc, file1, file2, identical, img1_temp, img2_temp, img1_temp_channels,
                   img2_temp_channels, nChan, img, final, err, errormap, gridOut>>

\* lines 459-465
Finalize ==
    /\ pc = "finalize"
    /\ final' = FinalScore(score, score_max)
    /\ log' = Append(log, <<"print", -1>>)
    /\ pc' = "done"
    /\ UNCHANGED <<argc, file1, file2, identical, ones, img1_temp, img2_temp, img1_temp_channels,
                   img2_temp_channels, nChan, img, live, scale, score, score_max,
                   err, badReads, avg, errormap, gridOut>>

Next ==
    \/ CheckSize \/ CheckSmall \/ CheckChannels \/ Blend \/ Linearize
    \/ ReleaseTemps \/ Convert \/ LoopHead \/ Numerator \/ EdgeDetect
    \/ SsimMap \/ GridSsim \/ Average \/ WorstBlock \/ Finalize

Spec == Init /\ [][Next]_vars


-----------------------------------------------------------------------------
(* The channel check and the blend on the full range of 8-bit samples *)

\* the state at line 262 for two 8 x 8 rasters of 3 or 4 channels
InitBlend ==
    /\ pc = "channels"
    /\ argc = 3
    /\ \E c \in Byte, a \in Byte, c1 \in {3, 4}, c2 \in {3, 4} :
          /\ file1 = Raster(<<8, 8>>, c1, SubSeq(<<c, 255 - c, 128, a>>, 1, c1))
          /\ file2 = Raster(<<8, 8>>, c2, SamplePixel(c2))
    /\ identical = FALSE
    /\ ones = TRUE
    /\ img1_temp = file1
    /\ img2_temp = file2
    /\ img1_temp_channels = 0
    /\ img2_temp_channels = 0
    /\ nChan = 0
    /\ img = [cols |-> 0, rows |-> 0]
    /\ live = {"img1_temp", "img2_temp"}
    /\ scale = 0
    /\ score = 0
    /\ score_max = 0
    /\ final = NoFinal
    /\ err = "none"
    /\ log = <<>>
    /\ badReads = <<>>
    /\ avg = 0
    /\ errormap = NoMap
    /\ gridOut = NoGrid

NextBlend == CheckChannels \/ Blend

SpecBlend == InitBlend /\ [][NextBlend]_vars

-----------------------------------------------------------------------------
(* grid_artifacts() on maps of every height up to MaxMapDim *)

GridCols == {1, 50, 100}

InitGrid ==
    /\ pc = "gridcall"
    /\ argc = 3
    /\ file1 = Raster(<<8, 8>>, 1, SamplePixel(1))
    /\ file2 = file1
    /\ identical = FALSE
    /\ ones = TRUE
    /\ img1_temp = file1
    /\ img2_temp = file2
    /\ img1_temp_channels = 0
    /\ img2_temp_channels = 0
    /\ nChan \in {1, 3, 4}
    /\ img = [cols |-> 0, rows |-> 0]
    /\ live = {}
    /\ scale = 0
    /\ score = 0
    /\ score_max = 0
    /\ final = NoFinal
    /\ err = "none"
    /\ log = <<>>
    /\ badReads = <<>>
    /\ avg = 0
    /\ \E n \in 1..MaxMapDim, m \in GridCols, t \in {0, 1},
          rp \in MeanPatterns(SsimLevels), q \in Periods :
          /\ rp.lo <= rp.hi
          /\ errormap = [rows |-> n, cols |-> m, twice |-> t, rowp |-> rp,
                         colp |-> [rp EXCEPT !.period = q]]
    /\ gridOut = NoGrid

\* one call grid_artifacts(errormap, nChan, score, score_max, twice)
GridCall ==
    /\ pc = "gridcall"
    /\ LET g == grid_artifacts(errormap, nChan, score, score_max, errormap.twice)
       IN  /\ gridOut' = g
           /\ score' = g.score
           /\ score_max' = g.score_max
    /\ pc' = "gridret"
    /\ UNCHANGED <<argc, file1, file2, identical, ones, img1_temp, img2_temp,
                   img1_temp_channels, img2_temp_channels, nChan, img, live,
                   scale, final, err, log, badReads, avg, errormap>>

NextGrid == GridCall

SpecGrid == InitGrid /\ [][NextGrid]_vars

-----------------------------------------------------------------------------
(* Properties *)

Count(name) == Len(SelectSeq(log, LAMBDA e : e[1] = name))

EventsOf(name) == SelectSeq(log, LAMBDA e : e[1] = name)

BeforeLoop == {"size", "small", "channels", "blend", "linearize", "release", "convert"}

\* C1: the printed value is a number in [0, 1], whatever score and score_max
\* the scale loop accumulated.
C1_ScoreInUnitInterval ==
    pc = "done" =>
        /\ final.kind = "num"
        /\ final.den > 0
        /\ 0 <= final.num
        /\ final.num <= final.den

\* a run that ends with score = 0: the quotient is infinite and is capped at 1
C1_Witness == pc = "done" /\ score = 0 /\ score_max > 0 /\ final = Rat(1, 1)

\* C2: when every statistic that was accumulated is 1, score equals score_max
\* at the end and the printed value is 0.
C2_AllOnesGivesZero ==
    (pc \in {"finalize", "done"} /\ ones) =>
        /\ score = score_max
        /\ score > 0
        /\ pc = "done" => (final.kind = "num" /\ final.num = 0)

\* two equal four-channel rasters over all six scales
C2_Witness ==
    pc = "done" /\ ones /\ identical /\ nChan = 4 /\ scale = NumScales /\ final.num = 0

\* C3: an error return is taken before any computation on the rasters.
C3_NoComputationBeforeError == pc = "error" => log = <<>>

\* C4: past the channel check the two rasters have the same channel count; a
\* mismatch with a count below 3 is the channel-mismatch error, a 3/4 mismatch
\* promotes the 3-channel raster with opaque alpha, equal counts change
\* nothing; nChan is the count of both.
C4_SameChannelsAfterCheck ==
    (pc \notin {"size", "small", "channels"}
        /\ err \notin {"DimensionMismatch", "ImageTooSmall"}) =>
        LET differ == file1.ch # file2.ch
            low    == file1.ch < 3 \/ file2.ch < 3
        IN  /\ (err = "ChannelMismatch") <=> (differ /\ low)
            /\ err = "ChannelMismatch" => pc = "error"
            /\ err # "ChannelMismatch" =>
                  /\ img1_temp.ch = img2_temp.ch
                  /\ img1_temp_channels = file1.ch
                  /\ img2_temp_channels = file2.ch
                  /\ differ =>
                        /\ img1_temp.ch = 4
                        /\ file1.ch = 3 => img1_temp.px[4] = 255
                        /\ file2.ch = 3 => img2_temp.px[4] = 255
                        /\ pc = "blend" =>
                              /\ SubSeq(img1_temp.px, 1, 3) = SubSeq(file1.px, 1, 3)
                              /\ SubSeq(img2_temp.px, 1, 3) = SubSeq(file2.px, 1, 3)
                  /\ ~differ => (img1_temp.ch = file1.ch /\ img2_temp.ch = file2.ch)
                  /\ (~differ /\ pc = "blend") => (img1_temp = file1 /\ img2_temp = file2)
                  /\ pc # "blend" => (nChan = img1_temp.ch /\ nChan = img2_temp.ch)

\* a 3-channel raster against a 4-channel one, after the promotion
C4_Witness ==
    /\ pc = "linearize"
    /\ file1.ch = 3 /\ file2.ch = 4
    /\ img1_temp.ch = 4 /\ img1_temp.px[4] = 255 /\ nChan = 4

\* C5: the blend stores floor((a*c + (255-a)*128) / 255), which needs no
\* wrap-around, is c for a = 255 and 128 for a = 0, and keeps alpha; a
\* promoted 3-channel raster keeps its color samples.
BlendedAsClaimed(before, after) ==
    LET a == before[4]
    IN  /\ after[4] = a
        /\ \A k \in 1..3 :
              LET c == before[k]
                  v == (a * c + (255 - a) * 128) \div 255
              IN  /\ v \in 0..255
                  /\ after[k] = v
                  /\ a = 255 => after[k] = c
                  /\ a = 0 => after[k] = 128

C5_BlendLossless ==
    (pc = "linearize" /\ nChan = 4) =>
        /\ BlendedAsClaimed(IF file1.ch = 3 THEN Append(file1.px, 255) ELSE file1.px,
                            img1_temp.px)
        /\ BlendedAsClaimed(IF file2.ch = 3 THEN Append(file2.px, 255) ELSE file2.px,
                            img2_temp.px)
        /\ file1.ch = 3 => SubSeq(img1_temp.px, 1, 3) = file1.px
        /\ file2.ch = 3 => SubSeq(img2_temp.px, 1, 3) = file2.px

\* a promoted raster with a bright sample, after the blend
C5_Witness ==
    /\ pc = "linearize" /\ nChan = 4
    /\ file1.ch = 3 /\ file1.px[1] = 200 /\ img1_temp.px = <<200, 55, 128, 255>>

\* C6: the scales run are 0, 1, ... in order, at most six; an iteration runs
\* only on buffers of at least 8 x 8; the loop is left at the first scale that
\* is 6 or whose buffers are smaller; scale 0 always runs.
RECURSIVE ScalesRun(_, _, _)
ScalesRun(c, r, k) ==
    IF k = 6 \/ c < 8 \/ r < 8 THEN k
    ELSE ScalesRun(Half(c), Half(r), k + 1)

C6_ScaleLoopBounded ==
    LET started == IF pc \in {"edge", "downsample", "grid", "average", "worst"}
                   THEN scale + 1
                   ELSE IF pc \in BeforeLoop \cup {"error", "crashed"} THEN 0 ELSE scale
    IN  /\ scale \in 0..6
        /\ EventsOf("ssim") = [k \in 1..started |-> <<"ssim", k - 1>>]
        /\ pc \in {"numerator", "edge", "downsample"} =>
              (scale < 6 /\ img.cols >= 8 /\ img.rows >= 8)
        /\ pc \in {"finalize", "done"} =>
              /\ scale >= 1
              /\ scale = 6 \/ img.cols < 8 \/ img.rows < 8
              /\ scale = ScalesRun(file1.cols, file1.rows, 0)

\* six scales were run and the buffers are still 8 x 8
C6_Witness == pc = "done" /\ scale = 6 /\ img.cols >= 8 /\ img.rows >= 8

C9_NoReadAfterRelease == badReads = <<>>

\* C10: per channel and direction grid_artifacts adds the weight to score_max
\* and the weight times the mean at 0-based position floor(n/50) of the
\* ascending means to score; below 50 rows (columns) that is the minimum.
AtRank(n, p, v) ==
    /\ Cardinality({ y \in 0..(n - 1) : Mean(p, y) < v }) <= n \div 50
    /\ Cardinality({ y \in 0..(n - 1) : Mean(p, y) <= v }) > n \div 50

RECURSIVE WeightSum(_, _, _)
WeightSum(twice, n, vs) ==
    IF n = 0 THEN 0
    ELSE WeightSum(twice, n - 1, vs) + worst_grid_weight[twice + 1][n] * vs[n]

C10_GridPercentile ==
    pc = "gridret" =>
        LET m == errormap
            g == gridOut
            rowv == SubSeq(g.picked, 1, nChan)
            colv == SubSeq(g.picked, nChan + 1, 2 * nChan)
        IN  /\ g.nmax = 2 * nChan
            /\ Len(g.picked) = 2 * nChan
            /\ \A i \in 1..nChan :
                  /\ AtRank(m.rows, m.rowp, rowv[i])
                  /\ AtRank(m.cols, m.colp, colv[i])
                  /\ m.rows < 50 =>
                        \A y \in 0..(m.rows - 1) : rowv[i] <= Mean(m.rowp, y)
                  /\ m.cols < 50 =>
                        \A x \in 0..(m.cols - 1) : colv[i] <= Mean(m.colp, x)
            /\ g.score = WeightSum(m.twice, nChan, rowv) + WeightSum(m.twice, nChan, colv)
            /\ g.score_max = 2 * WeightSum(m.twice, nChan, [i \in 1..nChan |-> 1])

\* 100 rows with a low mean on one row in 64: rank 2 skips the single low row
C10_Witness ==
    /\ pc = "gridret" /\ errormap.rows = 100 /\ nChan = 3
    /\ errormap.rowp = [lo |-> -1, hi |-> 1, period |-> 64]
    /\ gridOut.picked[1] = 1

-----------------------------------------------------------------------------
(* The normalisation denominator *)

\* the weights added once, at scale 0, for n channels: the edge weights and
\* each row of the grid weights for the rows and for the columns of its map
RECURSIVE FixedWeights(_)
FixedWeights(n) ==
    IF n = 0 THEN 0
    ELSE FixedWeights(n - 1) + extra_edges_weight[n]
                             + 2 * worst_grid_weight[1][n]
                             + 2 * worst_grid_weight[2][n]

\* the weights added by one executed scale s (0-based) for n channels: the
\* average weight, scaled by chroma_weight on the channels after the first,
\* and the worst-block weight
RECURSIVE PerScaleWeights(_, _)
PerScaleWeights(n, s) ==
    IF n = 0 THEN 0
    ELSE PerScaleWeights(n - 1, s)
         + (IF n > 1 THEN chroma_weight ELSE luma_weight) * scale_weights[n][s + 1]
         + min_weight[n] * mscale_weights[n][s + 1]

RECURSIVE ExpectedMax(_, _)
ExpectedMax(n, k) ==
    IF k = 0 THEN 0
    ELSE IF k = 1 THEN FixedWeights(n) + PerScaleWeights(n, 0)
    ELSE ExpectedMax(n, k - 1) + PerScaleWeights(n, k - 1)

\* C11: the accumulator is (0,0) until the first contribution of scale 0;
\* at every start of an iteration and when the loop is left, score_max is the
\* sum of the weights that nChan and the number of executed scales fix (the
\* edge weights, both grid weight rows twice, and per executed scale the
\* average and worst-block weights), whatever values were accumulated; and
\* since each contribution is weight * value with the same weight, score
\* stays within -score_max .. score_max.
C11_ScoreMaxFromChannelsAndScales ==
    /\ (pc \in {"loop", "numerator", "edge"} /\ scale = 0) =>
            (score = 0 /\ score_max = 0)
    /\ pc \in {"loop", "finalize", "done"} =>
            /\ score_max = ExpectedMax(nChan, scale)
            /\ -score_max <= score /\ score <= score_max

\* a 3-channel run of three scales whose statistics were not all 1
C11_Witness ==
    /\ pc = "done" /\ nChan = 3 /\ scale = 3 /\ ~ones
    /\ score < score_max

-----------------------------------------------------------------------------
(* The detectors of scale 0 *)

\* the position of the first run of an operation at a scale, 0 if it has
\* not run
FirstAt(name, s) ==
    LET at == { k \in 1..Len(log) : log[k][1] = name /\ log[k][2] = s }
    IN  IF at = {} THEN 0 ELSE CHOOSE k \in at : \A j \in at : k <= j

Ran(name, s) == FirstAt(name, s) > 0

\* C12: the edge contribution and the grid detector run at scale 0 only, the
\* edge contribution at most once and the grid detector at most twice: first
\* with weight row 1 on the 1 - edgediff map, right after the edge
\* contribution, then with weight row 0 on the SSIM map; both calls precede
\* the average and the worst-block contribution of scale 0, which precede
\* the first step of scale 1; a completed evaluation has exactly one edge
\* contribution and exactly two grid calls.
C12_DetectorsOnceAtScaleZero ==
    /\ \A k \in 1..Len(log) : log[k][1] \in {"edge", "grid"} => log[k][2] = 0
    /\ Count("edge") <= 1
    /\ EventsOf("grid") \in
          { << >>,
            << <<"grid", 0, 1, "edgediff">> >>,
            << <<"grid", 0, 1, "edgediff">>, <<"grid", 0, 0, "ssim_map">> >> }
    /\ Count("grid") >= 1 =>
          /\ Ran("edge", 0)
          /\ FirstAt("grid", 0) = FirstAt("edge", 0) + 1
    /\ Ran("avg", 0) =>
          /\ Count("edge") = 1 /\ Count("grid") = 2
          /\ \A k \in 1..Len(log) :
                log[k][1] \in {"edge", "grid"} => k < FirstAt("avg", 0)
    /\ Ran("worst", 0) => (Ran("avg", 0) /\ FirstAt("avg", 0) < FirstAt("worst", 0))
    /\ Ran("ssim", 1) => (Ran("worst", 0) /\ FirstAt("worst", 0) < FirstAt("ssim", 1))
    /\ pc = "done" => (Count("edge") = 1 /\ Count("grid") = 2)

\* a 4-channel evaluation of at least three scales, detectors run at scale 0
C12_Witness ==
    /\ pc = "done" /\ nChan = 4 /\ scale >= 3
    /\ Count("edge") = 1 /\ Count("grid") = 2
    /\ Ran("ssim", 2)

=============================================================================
